---- MODULE Spec2Model ----
\* Model of src/src/WebMOpusWorker.js: the WebMOpusWorker class (frame staging
\* pipeline in front of the Speex resampler, the Opus encoder and the WebM
\* container writer) and the worker's message handler.
\*
\* Samples and output segments are modelled as tags (positive integers, each
\* input sample and each segment a fresh one); 0 is the content of a freshly
\* allocated Float32Array.  Sample rates are multiples of 50 Hz, so that
\* inputSampleRate * OPUS_FRAME_SIZE / 1000 is an integer as for 44100/48000.
EXTENDS Integers, Sequences, FiniteSets, TLC

\* ---------------------------------------------------------------- constants
OPUS_OUTPUT_SAMPLE_RATE == 48000
OPUS_FRAME_SIZE == 20
\* BUFFER_LENGTH is 4096 in the source; it is scaled down to ScratchFrames to
\* keep the scratch buffer (BUFFER_LENGTH * channelCount samples) enumerable.
ScratchFrames == 2
BUFFER_LENGTH == ScratchFrames

\* ------------------------------------------------------------------- bounds
MaxCommands == 4   \* commands handled over a worker's life

SampleRates == {100, 150}
ChannelCounts == {1, 2}
BitRates == {0, 64000}          \* 0 stands for bitsPerSecond = undefined
\* per-channel chunk lengths: empty, shorter than the scratch buffer's
\* BUFFER_LENGTH, equal to it, and longer
ChunkLengths == {0, 1, BUFFER_LENGTH, BUFFER_LENGTH + 1}

VARIABLES
    phase,            \* "loading" | "listening" | "closed" (after self.close())
    webmOpusWorker,   \* the module-level variable: Undefined or the instance
    posted,           \* messages handed to self.postMessage, in order
    trace,            \* steps taken by the handler that ran last
    thrown,           \* error raised by the handler that ran last, or "none"
    live,             \* native resources acquired and not yet released
    doubleFree,       \* some resource was released while not live
    replaced,         \* history: an init replaced an existing instance
    fedSamples,       \* history: samples passed to encode() on the instance
    frames,           \* history: staging frames handed to the resampler
    failed,           \* history: some encode() on the instance raised an error
    last,             \* history: the command handled last and its pre-state
    nextSeg,          \* the tag of the next segment the container completes
    nInst,            \* instances constructed so far
    nCmd              \* commands handled so far

vars == <<phase, webmOpusWorker, posted, trace, thrown, live, doubleFree,
          replaced, fedSamples, frames, failed, last,
          nextSeg, nInst, nCmd>>

\* ------------------------------------------------------------------ helpers
Min(a, b) == IF a <= b THEN a ELSE b

RECURSIVE Flatten(_)
Flatten(ss) == IF ss = <<>> THEN <<>> ELSE Head(ss) \o Flatten(Tail(ss))

Count(s, x) == Cardinality({i \in 1..Len(s) : s[i] = x})

Undefined == [inst |-> 0]
IsDefined(w) == w.inst # 0

NoLast ==
    [ command |-> "none", defined |-> FALSE, cursor |-> 0, queue |-> <<>>,
      nPosted |-> 0, nextSeg |-> 1, channelBuffers |-> <<>>, samples |-> <<>>,
      closed |-> FALSE, failed |-> FALSE, nFrames |-> 0, live |-> {}, nCmd |-> 0,
      final |-> <<>>, mInputBuffer |-> <<>>, loop |-> <<>> ]

\* ------------------------------------------------------------ the constructor
InputSamplesPerChannel(inputSampleRate) ==
    (inputSampleRate * OPUS_FRAME_SIZE) \div 1000

OutputSamplePerChannel == (OPUS_OUTPUT_SAMPLE_RATE * OPUS_FRAME_SIZE) \div 1000

\* new WasmFloat32Buffer(n): n samples, zero-filled here
WasmFloat32Buffer(n) == [i \in 1..n |-> 0]

\* the fields the constructor leaves in a completely constructed instance
NewWorker(inputSampleRate, channelCount, id) ==
    [ inst |-> id,
      config |-> [inputSampleRate |-> inputSampleRate,
                  channelCount |-> channelCount],
      encodedBuffers |-> <<>>,
      inputSamplesPerChannel |-> InputSamplesPerChannel(inputSampleRate),
      outputSamplePerChannel |-> OutputSamplePerChannel,
      inputBufferIndex |-> 0,
      mInputBuffer |->
          WasmFloat32Buffer(InputSamplesPerChannel(inputSampleRate) * channelCount),
      interleavedBuffers |->
          IF channelCount # 1 THEN [i \in 1..(BUFFER_LENGTH * channelCount) |-> 0]
                              ELSE <<>> ]

Capacity(w) == Len(w.mInputBuffer)

\* ------------------------------------------------------------------ interleave
\* The result of interleave(channelBuffers): the array it returns and the
\* scratch buffer it leaves behind.  With one channel the channel buffer itself
\* is returned.  Otherwise element i of channel ch is stored at index
\* i * chCount + ch of this.interleavedBuffers (a store past the end of a
\* Float32Array is ignored) and the whole scratch buffer is returned.
interleave(w, channelBuffers) ==
    LET chCount == Len(channelBuffers)
        scratch == w.interleavedBuffers
        written == [k \in 1..Len(scratch) |->
                      LET ch == (k - 1) % chCount
                          i  == (k - 1) \div chCount
                      IN  IF i < Len(channelBuffers[ch + 1])
                            THEN channelBuffers[ch + 1][i + 1]
                            ELSE scratch[k]]
    IN  IF chCount = 1
          THEN [samples |-> channelBuffers[1], scratch |-> scratch]
          ELSE [samples |-> written, scratch |-> written]

\* ---------------------------------------------------------------------- encode
\* mInputBuffer.set(samples.subarray(from, from + n), at), 0-based from/at
SetSubarray(buf, samples, from, n, at) ==
    [k \in 1..Len(buf) |->
        IF k > at /\ k <= at + n THEN samples[from + (k - at)] ELSE buf[k]]

\* What the external services answer during one encode(): the flush cycle (1-based,
\* 0 for none) at which a service reports failure, which service, and the
\* cycles at which writeFrame completes a container segment.
NoFailure(emit) == [failAt |-> 0, failKind |-> "resample", emit |-> emit]

\* what the container writer adds to the output queue when it completes segments
ContainerEmit(queue, segs) == queue \o segs

\* Lines 82-86: copy the next lengthToCopy samples to the staging buffer and
\* advance inputBufferIndex.  st carries the instance fields encode() writes
\* (inputBufferIndex, mInputBuffer, encodedBuffers), the locals sampleIndex
\* and lengthToCopy, and the record of what happened (steps, frames, cycles,
\* nextSeg, err).
CopyToInputBuffer(st, samples) ==
    LET lengthToCopy == Min(Len(st.mInputBuffer) - st.inputBufferIndex,
                            Len(samples) - st.sampleIndex)
    IN  [st EXCEPT !.mInputBuffer = SetSubarray(@, samples, st.sampleIndex,
                                                 lengthToCopy, st.inputBufferIndex),
                   !.inputBufferIndex = @ + lengthToCopy,
                   !.lengthToCopy = lengthToCopy]

\* Mutant of FlushFrame: the frame is written to the container before it is encoded.
FlushFrameWriteBeforeEncode(st, svc) ==
    LET cyc == st.cycles + 1
        segs == IF cyc \in svc.emit THEN <<st.nextSeg>> ELSE <<>>
    IN  [st EXCEPT !.cycles = cyc,
                   !.steps = @ \o <<"resample", "writeFrame", "encode", "reset">>,
                   !.frames = Append(@, st.mInputBuffer),
                   !.encodedBuffers = ContainerEmit(@, segs),
                   !.nextSeg = @ + Len(segs),
                   !.inputBufferIndex = 0]

\* Mutant of FlushFrame: a failing service is noted but the cycle is completed.
FlushFrameIgnoreError(st, svc) ==
    LET cyc == st.cycles + 1
        segs == IF cyc \in svc.emit \/ svc.failAt = cyc THEN <<st.nextSeg>> ELSE <<>>
    IN  [st EXCEPT !.cycles = cyc,
                   !.steps = @ \o <<"resample", "encode", "writeFrame", "reset">>,
                   !.frames = Append(@, st.mInputBuffer),
                   !.encodedBuffers = ContainerEmit(@, segs),
                   !.nextSeg = @ + Len(segs),
                   !.inputBufferIndex = 0,
                   !.err = IF svc.failAt # cyc THEN "none"
                           ELSE IF svc.failKind = "resample"
                             THEN "Resampling error."
                             ELSE "Opus encoding error."]

\* Mutant of FlushFrame: the cursor is not reset after the frame is written.
FlushFrameNoReset(st, svc) ==
    LET cyc == st.cycles + 1
        segs == IF cyc \in svc.emit THEN <<st.nextSeg>> ELSE <<>>
    IN  IF svc.failAt = cyc
          THEN [st EXCEPT !.cycles = cyc,
                          !.steps = @ \o <<"resample">>,
                          !.frames = Append(@, st.mInputBuffer),
                          !.err = "Resampling error."]
          ELSE [st EXCEPT !.cycles = cyc,
                          !.steps = @ \o <<"resample", "encode", "writeFrame">>,
                          !.frames = Append(@, st.mInputBuffer),
                          !.encodedBuffers = ContainerEmit(@, segs),
                          !.nextSeg = @ + Len(segs)]

\* Lines 90-117, the body of "if (this.inputBufferIndex >= this.mInputBuffer.length)":
\* resample the staging buffer, encode, write the frame, reset the cursor; a
\* failing resampler or encoder makes encode() throw at that point.
FlushFrame(st, svc) ==
    LET cyc == st.cycles + 1
        resampled == [st EXCEPT !.cycles = cyc,
                                !.steps = @ \o <<"resample">>,
                                !.frames = Append(@, st.mInputBuffer)]
        encoded == [resampled EXCEPT !.steps = @ \o <<"encode">>]
        segs == IF cyc \in svc.emit THEN <<st.nextSeg>> ELSE <<>>
        written == [encoded EXCEPT
                      !.steps = @ \o <<"writeFrame">>,
                      !.encodedBuffers = ContainerEmit(@, segs),
                      !.nextSeg = @ + Len(segs)]
    IN  IF svc.failAt = cyc /\ svc.failKind = "resample"
          THEN [resampled EXCEPT !.err = "Resampling error."]
        ELSE IF svc.failAt = cyc /\ svc.failKind = "encode"
          THEN [encoded EXCEPT !.err = "Opus encoding error."]
        ELSE [written EXCEPT !.inputBufferIndex = 0,
                             !.steps = @ \o <<"reset">>]

\* The while loop of encode(), lines 80-120.  st.iters counts the iterations
\* and st.stalled those that neither consumed a sample nor reset a full
\* buffer; the loop is followed for at most Len(samples) + 2 iterations.
RECURSIVE EncodeLoop(_, _, _)
EncodeLoop(st, samples, svc) ==
    IF ~(st.sampleIndex < Len(samples)) \/ st.iters > Len(samples) + 1 THEN st
    ELSE
      LET copied == CopyToInputBuffer(st, samples)
          full == copied.inputBufferIndex >= Len(copied.mInputBuffer)
          flushed == IF full THEN FlushFrame(copied, svc) ELSE copied
          progress == \/ copied.lengthToCopy > 0
                      \/ flushed.err # "none"
                      \/ full /\ flushed.inputBufferIndex = 0
          counted == [flushed EXCEPT
                        !.iters = @ + 1,
                        !.stalled = IF progress THEN @ ELSE @ + 1]
      IN  IF counted.err # "none" THEN counted
          ELSE EncodeLoop([counted EXCEPT !.sampleIndex = @ + counted.lengthToCopy],
                          samples, svc)

\* Mutant of EndOfStream: the final call flushes a partially filled buffer.
EndOfStreamFlush(st, final, svc) ==
    IF final /\ st.inputBufferIndex > 0 THEN FlushFrame(st, svc) ELSE st

\* Lines 121-123, "if (final) { }": the body is empty
EndOfStream(st, final, svc) ==
    IF final THEN st ELSE st

\* encode(buffers, final): interleave, then the loop, then the final branch
encode(w, channelBuffers, final, svc, seg0) ==
    LET il == interleave(w, channelBuffers)
        st0 == [ inputBufferIndex |-> w.inputBufferIndex,
                 mInputBuffer |-> w.mInputBuffer,
                 encodedBuffers |-> w.encodedBuffers,
                 sampleIndex |-> 0, lengthToCopy |-> 0, cycles |-> 0,
                 steps |-> <<>>, frames |-> <<>>, nextSeg |-> seg0,
                 err |-> "none", iters |-> 0, stalled |-> 0 ]
        looped == EncodeLoop(st0, il.samples, svc)
    IN  [ run |-> IF looped.err # "none" THEN looped
                  ELSE EndOfStream(looped, final, svc),
          samples |-> il.samples, scratch |-> il.scratch ]

\* number of flush cycles encode() runs when no service fails
CyclesIfOk(w, channelBuffers) ==
    encode(w, channelBuffers, FALSE, NoFailure({}), 0).run.cycles

\* The answers the services can give during encode(w, channelBuffers).  Segments
\* are named in the order they are completed, so the cycles that complete one
\* matter only by their number: the first n cycles stand for any n of them.
ServiceAnswers(w, channelBuffers) ==
    UNION { { NoFailure(1..n) : n \in 0..K }
            \cup UNION { { [failAt |-> f, failKind |-> k, emit |-> 1..n] :
                             k \in {"resample", "encode"}, n \in 0..(f - 1) } :
                         f \in 1..K } :
            K \in {CyclesIfOk(w, channelBuffers)} }

\* channel buffers of a pushInputData message: channelCount arrays of L fresh
\* samples; a sample is named base + the place it has among the samples of the
\* message when these are ordered by time, then by channel
ChannelBuffers(channelCount, L, base) ==
    [ch \in 1..channelCount |-> [i \in 1..L |-> base + (i - 1) * channelCount + ch]]


\* ----------------------------------------------------------------------- close
\* Mutant of close: the encoder and the resampler are destroyed before the buffers.
closeCodecsFirst ==
    << "_contrainer", "encoder", "resampler", "mInputBuffer",
       "mResampledBuffer", "mOutputBuffer" >>

\* close(): the releases it performs, in order
close ==
    << "_contrainer", "mInputBuffer", "mResampledBuffer", "mOutputBuffer",
       "encoder", "resampler" >>

Handles(id, kinds) == {<<id, kinds[i]>> : i \in 1..Len(kinds)}

\* Mutant of getEncodedData: the queue is not replaced after it was posted.
getEncodedDataKeepQueue(w) ==
    [ message |-> [command |-> "encodedData", buffers |-> w.encodedBuffers],
      worker |-> w,
      steps |-> <<"postMessage">> ]

\* lines 232-237 for 'getEncodedData': the message posted and the instance left
getEncodedData(w) ==
    [ message |-> [command |-> "encodedData", buffers |-> w.encodedBuffers],
      worker |-> [w EXCEPT !.encodedBuffers = <<>>],
      steps |-> <<"postMessage", "encodedBuffers = []">> ]

\* Mutant of done: the queue is posted before close() runs.
donePostBeforeClose(w, tail) ==
    [ message |-> [command |-> "lastEncodedData", buffers |-> w.encodedBuffers],
      worker |-> [w EXCEPT !.encodedBuffers = tail],
      steps |-> <<"postMessage", "encodedBuffers = []">> \o close \o <<"self.close">> ]

\* lines 228-242 for 'done': close() (destroying the container writer may
\* complete the segments tail), the message posted, the instance left
done(w, tail) ==
    LET closed == [w EXCEPT !.encodedBuffers = ContainerEmit(@, tail)]
    IN  [ message |-> [command |-> "lastEncodedData",
                       buffers |-> closed.encodedBuffers],
          worker |-> [closed EXCEPT !.encodedBuffers = <<>>],
          steps |-> close \o <<"postMessage", "encodedBuffers = []", "self.close">> ]

\* ------------------------------------------------------------------------ Init
Init ==
    /\ phase = "loading"
    /\ webmOpusWorker = Undefined
    /\ posted = <<>>
    /\ trace = <<>>
    /\ thrown = "none"
    /\ live = {}
    /\ doubleFree = FALSE
    /\ replaced = FALSE
    /\ fedSamples = 0
    /\ frames = <<>>
    /\ failed = FALSE
    /\ last = NoLast
    /\ nextSeg = 1
    /\ nInst = 0
    /\ nCmd = 0

\* the instance's close() has run: none of its resources is held any more
InstanceClosed ==
    /\ IsDefined(webmOpusWorker)
    /\ Handles(webmOpusWorker.inst, close) \cap live = {}

Before(command) ==
    [ command |-> command, channelBuffers |-> <<>>, samples |-> <<>>,
      nPosted |-> Len(posted), nextSeg |-> nextSeg,
      closed |-> InstanceClosed, failed |-> failed, nFrames |-> Len(frames),
      live |-> live, nCmd |-> nCmd, final |-> <<>>, loop |-> <<>>,
      mInputBuffer |-> IF IsDefined(webmOpusWorker)
                         THEN webmOpusWorker.mInputBuffer ELSE <<>>,
      defined |-> IsDefined(webmOpusWorker),
      cursor |-> IF IsDefined(webmOpusWorker)
                   THEN webmOpusWorker.inputBufferIndex ELSE 0,
      queue |-> IF IsDefined(webmOpusWorker)
                  THEN webmOpusWorker.encodedBuffers ELSE <<>> ]

\* Mutant of Listening: the handler is installed when the script is loaded.
ListeningBeforeReady == phase # "closed"

\* self.onmessage is assigned inside Module.onRuntimeInitialized (line 207) and
\* self.close() ends the delivery of messages: commands reach the handler
\* only in between
Listening == phase = "listening"

\* Mutant of selfClose: the worker context is not terminated.
selfCloseMissing == "listening"

\* self.close() (line 241): the phase the worker is left in
selfClose == "closed"

\* Mutant of undefinedAccess: the handler skips the instance when there is
\* none and carries on.
undefinedAccessSkipped(command) ==
    [ thrown |-> "none",
      messages |-> IF command = "pushInputData" THEN <<>>
                   ELSE <<[command |-> IF command = "done" THEN "lastEncodedData"
                                       ELSE "encodedData",
                           buffers |-> <<>>]>>,
      closes |-> command = "done" ]

\* What a handler does when webmOpusWorker is still undefined: the first
\* access to the instance (webmOpusWorker.config on line 219,
\* webmOpusWorker.close() on line 229, webmOpusWorker.encodedBuffers on
\* line 232) throws a TypeError, so the rest of the handler is not run:
\* nothing is posted and self.close() is not reached.
undefinedAccess(command) ==
    [ thrown |-> "TypeError", messages |-> <<>>, closes |-> FALSE ]

\* Module.onRuntimeInitialized: announce readiness, install the handler
RuntimeInitialized ==
    /\ phase = "loading"
    /\ phase' = "listening"
    /\ posted' = Append(posted, [command |-> "readyToInit", buffers |-> <<>>])
    /\ trace' = <<"setWASM", "postMessage">>
    /\ thrown' = "none"
    /\ last' = Before("onRuntimeInitialized")
    /\ UNCHANGED <<webmOpusWorker, live, doubleFree, replaced, fedSamples, frames,
                   failed, nextSeg, nInst, nCmd>>

\* case 'init': webmOpusWorker = new WebMOpusWorker(...).  The constructor
\* creates the container writer, the encoder, the resampler and the three
\* buffers in that order; a creation that reports an error makes it throw,
\* and the assignment to webmOpusWorker then does not happen.
OnInit ==
    /\ Listening
    /\ nCmd < MaxCommands
    /\ nCmd' = nCmd + 1
    /\ nInst' = nInst + 1
    /\ last' = Before("init")
    /\ \E answer \in {"ok", "encoderError", "resamplerError"} :
          LET id == nInst + 1
          IN
          IF answer = "encoderError" THEN
            /\ trace' = <<"new WebMContainer", "_opus_encoder_create">>
            /\ thrown' = "Opus encodor initialization failed."
            /\ live' = live \cup Handles(id, <<"_contrainer">>)
            /\ UNCHANGED <<webmOpusWorker, replaced, fedSamples, frames, failed>>
          ELSE
            \E bitsPerSecond \in BitRates :
              LET ctl == IF bitsPerSecond # 0 THEN <<"_opus_encoder_ctl">> ELSE <<>>
              IN
              IF answer = "resamplerError" THEN
                /\ trace' = <<"new WebMContainer", "_opus_encoder_create">> \o ctl
                              \o <<"_speex_resampler_init">>
                /\ thrown' = "Initializing resampler failed."
                /\ live' = live \cup Handles(id, <<"_contrainer", "encoder">>)
                /\ UNCHANGED <<webmOpusWorker, replaced, fedSamples, frames, failed>>
              ELSE
                \E sampleRate \in SampleRates, channelCount \in ChannelCounts :
                  /\ trace' = <<"new WebMContainer", "_opus_encoder_create">> \o ctl
                                \o <<"_speex_resampler_init", "new WasmFloat32Buffer",
                                     "new WasmFloat32Buffer", "new WasmUint8Buffer">>
                  /\ thrown' = "none"
                  /\ live' = live \cup Handles(id, close)
                  /\ webmOpusWorker' = NewWorker(sampleRate, channelCount, id)
                  /\ replaced' = (replaced \/ IsDefined(webmOpusWorker))
                  /\ fedSamples' = 0
                  /\ frames' = <<>>
                  /\ failed' = FALSE
    /\ UNCHANGED <<phase, posted, doubleFree, nextSeg>>

\* case 'pushInputData': re-wrap the channel buffers (same contents) and
\* encode them; the handler passes no second argument, so final is undefined.
\* last.final keeps what encode(channelBuffers, true) would have done.  Reading webmOpusWorker.config of undefined throws a TypeError.
OnPushInputData ==
    /\ Listening
    /\ nCmd < MaxCommands
    /\ nCmd' = nCmd + 1
    /\ IF ~IsDefined(webmOpusWorker) THEN
         /\ thrown' = undefinedAccess("pushInputData").thrown
         /\ trace' = <<>>
         /\ last' = Before("pushInputData")
         /\ UNCHANGED <<webmOpusWorker, fedSamples, frames, failed, nextSeg>>
       ELSE
         \E L \in ChunkLengths :
           LET w == webmOpusWorker
               channelBuffers ==
                   ChannelBuffers(w.config.channelCount, L, fedSamples)
           IN  \E svc \in ServiceAnswers(w, channelBuffers) :
               \E r \in {encode(w, channelBuffers, FALSE, svc, nextSeg)},
                  rFinal \in {encode(w, channelBuffers, TRUE, svc, nextSeg).run} :
                 /\ webmOpusWorker' =
                      [w EXCEPT !.inputBufferIndex = r.run.inputBufferIndex,
                                !.mInputBuffer = r.run.mInputBuffer,
                                !.encodedBuffers = r.run.encodedBuffers,
                                !.interleavedBuffers = r.scratch]
                 /\ trace' = r.run.steps
                 /\ thrown' = r.run.err
                 /\ last' = [Before("pushInputData") EXCEPT
                                !.channelBuffers = channelBuffers,
                                !.samples = r.samples,
                                !.final = rFinal,
                                !.loop = [iters |-> r.run.iters,
                                          stalled |-> r.run.stalled,
                                          sampleIndex |-> r.run.sampleIndex]]
                 /\ fedSamples' = fedSamples + L * w.config.channelCount
                 /\ frames' = frames \o r.run.frames
                 /\ failed' = (failed \/ r.run.err # "none")
                 /\ nextSeg' = r.run.nextSeg
    /\ UNCHANGED <<phase, posted, live, doubleFree, replaced, nInst>>

\* case 'getEncodedData': post the queue, then replace it by a new empty one.
\* Reading webmOpusWorker.encodedBuffers of undefined throws a TypeError.
OnGetEncodedData ==
    /\ Listening
    /\ nCmd < MaxCommands
    /\ nCmd' = nCmd + 1
    /\ last' = Before("getEncodedData")
    /\ IF ~IsDefined(webmOpusWorker) THEN
         /\ thrown' = undefinedAccess("getEncodedData").thrown
         /\ trace' = <<>>
         /\ posted' = posted \o undefinedAccess("getEncodedData").messages
         /\ UNCHANGED webmOpusWorker
       ELSE
         \E r \in {getEncodedData(webmOpusWorker)} :
           /\ posted' = Append(posted, r.message)
           /\ webmOpusWorker' = r.worker
           /\ trace' = r.steps
           /\ thrown' = "none"
    /\ UNCHANGED <<phase, live, doubleFree, replaced, fedSamples, frames, failed,
                   nextSeg, nInst>>

\* case 'done': close(), post the queue as lastEncodedData, replace the queue,
\* self.close().  Destroying the container writer may complete a last segment.
\* webmOpusWorker.close() of undefined throws a TypeError.
OnDone ==
    /\ Listening
    /\ nCmd < MaxCommands
    /\ nCmd' = nCmd + 1
    /\ last' = Before("done")
    /\ IF ~IsDefined(webmOpusWorker) THEN
         /\ thrown' = undefinedAccess("done").thrown
         /\ trace' = <<>>
         /\ posted' = posted \o undefinedAccess("done").messages
         /\ phase' = IF undefinedAccess("done").closes THEN selfClose ELSE phase
         /\ UNCHANGED <<webmOpusWorker, live, doubleFree, nextSeg>>
       ELSE
         \E tail \in {<<>>, <<nextSeg>>} :
           \E r \in {done(webmOpusWorker, tail)} :
             LET released == Handles(webmOpusWorker.inst, close)
             IN
             /\ live' = live \ released
             /\ doubleFree' = (doubleFree \/ ~(released \subseteq live))
             /\ nextSeg' = nextSeg + Len(tail)
             /\ posted' = Append(posted, r.message)
             /\ webmOpusWorker' = r.worker
             /\ trace' = r.steps
             /\ thrown' = "none"
             /\ phase' = selfClose
    /\ UNCHANGED <<replaced, fedSamples, frames, failed, nInst>>

\* A command posted to the worker while no handler is listening (before
\* Module.onRuntimeInitialized ran, after self.close()) runs no code.
DropCommand ==
    /\ ~Listening
    /\ nCmd < MaxCommands
    /\ nCmd' = nCmd + 1
    /\ UNCHANGED <<phase, webmOpusWorker, posted, trace, thrown, live, doubleFree,
                   replaced, fedSamples, frames, failed, last, nextSeg, nInst>>

Next ==
    \/ RuntimeInitialized
    \/ DropCommand
    \/ OnInit
    \/ OnPushInputData
    \/ OnGetEncodedData
    \/ OnDone

Spec == Init /\ [][Next]_vars


\* ======================================================================
\* Properties
\* ======================================================================
Defined == IsDefined(webmOpusWorker)
Fed == last.command = "pushInputData" /\ last.defined
Stream(n) == [i \in 1..n |-> i]
Staged == SubSeq(webmOpusWorker.mInputBuffer, 1, webmOpusWorker.inputBufferIndex)
Delivered == Flatten([i \in 1..Len(posted) |-> posted[i].buffers])
Pending == IF Defined THEN webmOpusWorker.encodedBuffers ELSE <<>>
Cycles == Count(trace, "reset")

\* the interleaved stream of one Feed as the specification defines it:
\* interleaved[i * channelCount + ch] = channelBuffers[ch][i], L * channelCount samples
Interleaved(channelBuffers) ==
    LET chCount == Len(channelBuffers)
        L == Len(channelBuffers[1])
    IN  [k \in 1..(L * chCount) |->
           channelBuffers[((k - 1) % chCount) + 1][((k - 1) \div chCount) + 1]]

\* C1: sample-count conservation.  While every Feed on the instance has
\* succeeded, the samples fed (sum of L_j * channelCount) equal the number of
\* frames flushed times the capacity plus the cursor, for every channelCount.
C1_SampleCountConservation ==
    (Defined /\ ~failed) =>
        fedSamples = Len(frames) * Capacity(webmOpusWorker)
                     + webmOpusWorker.inputBufferIndex

\* The same for one channel only (not a claim: the part of C1 the code keeps).
MonoSampleCountConservation ==
    (Defined /\ ~failed /\ webmOpusWorker.config.channelCount = 1) =>
        fedSamples = Len(frames) * Capacity(webmOpusWorker)
                     + webmOpusWorker.inputBufferIndex

\* C2: order preservation.  While every Feed on the instance has succeeded,
\* the frames handed to the resampler, in order, followed by the staged
\* prefix of the staging buffer, are the interleaved inputs in feeding order.
C2_OrderPreserved ==
    (Defined /\ ~failed) => Flatten(frames) \o Staged = Stream(fedSamples)

\* The same for one channel only (not a claim: the part of C2 the code keeps).
MonoOrderPreserved ==
    (Defined /\ ~failed /\ webmOpusWorker.config.channelCount = 1) =>
        Flatten(frames) \o Staged = Stream(fedSamples)

\* C3: multi-channel interleaving.  With more than one channel, the stream a
\* Feed appends to the staging buffer is the interleaving of its channel
\* buffers: L * channelCount samples, nothing stale, no padding.
C3_Interleaving ==
    (Fed /\ Len(last.channelBuffers) > 1) =>
        last.samples = Interleaved(last.channelBuffers)

\* C5: cursor invariant.  The cursor stays within 0..capacity and, between
\* commands (also after a Feed that raised an error), is below capacity.
C5_CursorBelowCapacity ==
    Defined => /\ 0 <= webmOpusWorker.inputBufferIndex
               /\ webmOpusWorker.inputBufferIndex < Capacity(webmOpusWorker)

\* The bounds alone (not a claim: the part of C5 the code keeps).
CursorWithinCapacity ==
    Defined => /\ 0 <= webmOpusWorker.inputBufferIndex
               /\ webmOpusWorker.inputBufferIndex <= Capacity(webmOpusWorker)
               /\ (~failed =>
                     webmOpusWorker.inputBufferIndex < Capacity(webmOpusWorker))

\* C6: flush count per Feed.  A successful Feed of n interleaved samples
\* (n = L * channelCount) started with cursor c runs floor((c + n) / capacity)
\* cycles and ends with cursor (c + n) mod capacity.
C6_FlushCount ==
    (Fed /\ thrown = "none") =>
        LET n == Len(Interleaved(last.channelBuffers))
            cap == Capacity(webmOpusWorker)
        IN  /\ Cycles = (last.cursor + n) \div cap
            /\ webmOpusWorker.inputBufferIndex = (last.cursor + n) % cap

\* The same for one channel and a start cursor below capacity (not a claim:
\* the part of C6 the code keeps).
MonoFlushCount ==
    (Fed /\ thrown = "none" /\ Len(last.channelBuffers) = 1
         /\ last.cursor < Capacity(webmOpusWorker)) =>
        LET n == Len(last.channelBuffers[1])
            cap == Capacity(webmOpusWorker)
        IN  /\ Cycles = (last.cursor + n) \div cap
            /\ webmOpusWorker.inputBufferIndex = (last.cursor + n) % cap

\* C8: getEncodedData is safe at any time after readyToInit: it raises no
\* error and posts one encodedData message, empty when nothing is pending.
C8_DrainSafeAnyTime ==
    (last.command = "getEncodedData") =>
        /\ thrown = "none"
        /\ Len(posted) = last.nPosted + 1
        /\ posted[Len(posted)].command = "encodedData"
        /\ posted[Len(posted)].buffers = last.queue


\* C4: stage ordering per frame.  The steps of every Feed are whole cycles
\* resample, encode, writeFrame, reset in that order, each step once per
\* cycle; only a Feed that raises an error ends inside a cycle, after the
\* resampler (resampling error) or after the encoder (encoding error).
CycleSteps == <<"resample", "encode", "writeFrame", "reset">>
C4_StageOrder ==
    Fed =>
        /\ \A i \in 1..Len(trace) : trace[i] = CycleSteps[((i - 1) % 4) + 1]
        /\ thrown \in {"none", "Resampling error.", "Opus encoding error."}
        /\ (thrown = "none") <=> (Len(trace) % 4 = 0)
        /\ (thrown = "Resampling error.") <=> (Len(trace) % 4 = 1)
        /\ (thrown = "Opus encoding error.") <=> (Len(trace) % 4 = 2)

\* a Feed that ran two whole cycles
C4_Witness == Fed /\ thrown = "none" /\ Cycles >= 2

\* C7: exactly-once, in-order delivery.  As long as no init has replaced the
\* instance, the segments carried by the outbound messages, in order,
\* followed by the segments still queued, are the segments the container
\* writer appended, in the order it appended them; after each drain the queue
\* of the instance is empty.
C7_ExactlyOnceInOrder ==
    /\ ~replaced => Delivered \o Pending = Stream(nextSeg - 1)
    /\ (last.command \in {"getEncodedData", "done"} /\ last.defined) =>
          Pending = <<>>

\* two data messages, both carrying segments, the worker terminated
C7_Witness ==
    /\ ~replaced
    /\ phase = "closed"
    /\ Len(posted) = 3
    /\ posted[2].command = "encodedData" /\ posted[2].buffers # <<>>
    /\ posted[3].command = "lastEncodedData" /\ posted[3].buffers # <<>>

\* C9: done protocol.  A done command on an existing instance releases the
\* resources, then posts exactly one lastEncodedData carrying the segments
\* that were queued before it followed by those appended while the container
\* writer was destroyed, leaves the queue empty, then terminates the worker;
\* lastEncodedData is the last message posted.
C9_DoneProtocol ==
    /\ (last.command = "done" /\ last.defined) =>
          /\ Len(trace) = 9
          /\ \A i \in 1..6 : trace[i] \notin {"postMessage", "self.close"}
          /\ trace[7] = "postMessage"
          /\ trace[8] = "encodedBuffers = []"
          /\ trace[9] = "self.close"
          /\ thrown = "none"
          /\ phase = "closed"
          /\ {h \in live : h[1] = webmOpusWorker.inst} = {}
          /\ Len(posted) = last.nPosted + 1
          /\ posted[Len(posted)].command = "lastEncodedData"
          /\ posted[Len(posted)].buffers =
               last.queue \o [i \in 1..(nextSeg - last.nextSeg) |->
                                 last.nextSeg + i - 1]
          /\ Pending = <<>>
    /\ \A i \in 1..Len(posted) :
          posted[i].command = "lastEncodedData" => i = Len(posted)
    /\ phase = "closed" =>
          /\ last.command = "done"
          /\ posted[Len(posted)].command = "lastEncodedData"

\* a done that found segments queued and got one more from the container writer
C9_Witness ==
    /\ last.command = "done" /\ last.defined
    /\ last.queue # <<>>
    /\ nextSeg > last.nextSeg

\* C10: close release order.  The close() of a done command releases the
\* container writer, the staging buffer, the resampled buffer, the
\* encoded-packet buffer, the encoder and the resampler, in that order, each
\* once.
C10_CloseReleaseOrder ==
    (last.command = "done" /\ last.defined) =>
        /\ SubSeq(trace, 1, 6) =
              << "_contrainer", "mInputBuffer", "mResampledBuffer",
                 "mOutputBuffer", "encoder", "resampler" >>
        /\ \A i \in 1..6 : Count(trace, trace[i]) = 1
        /\ ~doubleFree

\* a close after a Feed, with every resource the worker acquired released
C10_Witness ==
    /\ last.command = "done" /\ last.defined
    /\ fedSamples > 0
    /\ live = {}



\* C11: no partial-resource leak on a failed Construct.  When the constructor
\* throws (encoder or resampler creation failed), nothing it acquired is still
\* held, and the instance does not become the current one.
C11_NoLeakOnFailedConstruct ==
    (last.command = "init" /\ thrown # "none") =>
        /\ {h \in live : h[1] = nInst} = {}
        /\ Defined = last.defined
        /\ Defined => webmOpusWorker.inst # nInst

\* The part of C11 the code keeps (not a claim): a failed Construct leaves
\* the current instance as it was.
FailedConstructKeepsInstance ==
    (last.command = "init" /\ thrown # "none") =>
        /\ Defined = last.defined
        /\ Defined => webmOpusWorker.inst # nInst

\* C12: exactly-once release over the worker's life.  When the worker has
\* terminated, every resource an init acquired has been released, and none
\* was released twice.
C12_ExactlyOnceRelease ==
    phase = "closed" => (live = {} /\ ~doubleFree)


\* C13: Closed is terminal.  Done releases the instance and ends the worker in
\* the same handler, so a released instance is never left listening, no
\* handler ever starts on a released instance, and commands arriving after
\* Done run nothing: the last handler that ran is still done, with its
\* trace, and nothing was released twice.
C13_ClosedIsTerminal ==
    /\ ~last.closed
    /\ InstanceClosed => phase = "closed"
    /\ (phase = "closed" /\ last.defined) =>
           /\ last.command = "done"
           /\ InstanceClosed
           /\ trace = close \o <<"postMessage", "encodedBuffers = []", "self.close">>
           /\ ~doubleFree

\* Reached: an instance was fed, closed by Done, and a later command arrived
C13_Witness ==
    /\ phase = "closed"
    /\ InstanceClosed
    /\ fedSamples > 0
    /\ nCmd > last.nCmd + 1


\* C14: errors are fatal with no retry.  A Feed on an instance on which an
\* earlier Feed failed invokes none of the resampler, the encoder and the
\* container writer, and no frame is submitted to the resampler twice.
C14_FailedFeedIsFatal ==
    (Fed /\ last.failed) =>
        /\ trace = <<>>
        /\ Len(frames) = last.nFrames

\* Not a claim: what the code does ensure.  A Feed that fails leaves the
\* cursor at capacity with the failed frame still staged, which is what the
\* next Feed submits again.
FailedFeedLeavesFullBuffer ==
    (Fed /\ thrown # "none") =>
        /\ webmOpusWorker.inputBufferIndex = Capacity(webmOpusWorker)
        /\ webmOpusWorker.mInputBuffer = frames[Len(frames)]


\* C15: no flush of a partial frame.  encode(buffers, true) runs the same
\* steps and leaves the same cursor, staging buffer and queue as
\* encode(buffers) does; every frame a Feed resamples is a full staging
\* buffer; and done resamples, encodes and writes nothing, whatever is staged.
C15_NoPartialFlush ==
    /\ Fed =>
          /\ last.final.steps = trace
          /\ last.final.err = thrown
          /\ last.final.inputBufferIndex = webmOpusWorker.inputBufferIndex
          /\ last.final.mInputBuffer = webmOpusWorker.mInputBuffer
          /\ last.final.encodedBuffers = webmOpusWorker.encodedBuffers
          /\ Len(frames) - last.nFrames = Count(trace, "resample")
    /\ (last.command \in {"done", "getEncodedData"} /\ last.defined) =>
          /\ Count(trace, "resample") = 0
          /\ Count(trace, "encode") = 0
          /\ Count(trace, "writeFrame") = 0
          /\ Len(frames) = last.nFrames
          /\ webmOpusWorker.inputBufferIndex = last.cursor

\* Reached: done on an instance whose staging buffer is partly filled
C15_Witness ==
    /\ last.command = "done"
    /\ last.defined
    /\ phase = "closed"
    /\ last.cursor > 0
    /\ last.cursor < Capacity(webmOpusWorker)


\* C16: readiness gating.  Until the runtime has loaded nothing is posted, no
\* handler has run, no instance exists and no resource is held, whatever
\* commands have arrived; from then on readyToInit is the first message
\* posted and is posted only once.
C16_ReadinessGating ==
    /\ phase = "loading" =>
          /\ posted = <<>>
          /\ last = NoLast
          /\ trace = <<>>
          /\ ~Defined
          /\ nInst = 0
          /\ live = {}
    /\ phase # "loading" =>
          /\ Len(posted) >= 1
          /\ posted[1].command = "readyToInit"
          /\ \A i \in 2..Len(posted) : posted[i].command # "readyToInit"

\* Reached: a command arrived while loading, then the runtime became ready
C16_Witness ==
    /\ phase = "listening"
    /\ last.command = "onRuntimeInitialized"
    /\ nCmd > 0
    /\ Len(posted) = 1
    /\ posted[1].command = "readyToInit"
    /\ ~Defined


\* C17: abort of a failing cycle.  A Feed that raises a resampling error
\* stopped right after the resampler: encoder and writer were invoked only
\* for the frames before the failing one.  A Feed that raises an encoding
\* error stopped right after the encoder, the writer not invoked for that
\* frame.  In both cases the queue grew only by segments of the completed
\* cycles, and the staging buffer still holds the failing frame at full
\* cursor: no later sample of the call was copied.
C17_AbortFailingCycle ==
    (Fed /\ thrown # "none") =>
        /\ thrown \in {"Resampling error.", "Opus encoding error."}
        /\ trace # <<>>
        /\ thrown = "Resampling error." =>
              /\ trace[Len(trace)] = "resample"
              /\ Count(trace, "encode") = Count(trace, "resample") - 1
        /\ thrown = "Opus encoding error." =>
              /\ trace[Len(trace)] = "encode"
              /\ Count(trace, "encode") = Count(trace, "resample")
        /\ Count(trace, "writeFrame") = Count(trace, "resample") - 1
        /\ Count(trace, "reset") = Count(trace, "resample") - 1
        /\ Len(webmOpusWorker.encodedBuffers) - Len(last.queue)
              <= Count(trace, "writeFrame")
        /\ nextSeg - last.nextSeg <= Count(trace, "writeFrame")
        /\ webmOpusWorker.inputBufferIndex = Capacity(webmOpusWorker)
        /\ \A k \in 1..Capacity(webmOpusWorker) :
              webmOpusWorker.mInputBuffer[k] = frames[Len(frames)][k]

\* Reached: a Feed failed in a cycle while samples of the call were left over
C17_Witness ==
    /\ Fed
    /\ thrown \in {"Resampling error.", "Opus encoding error."}
    /\ ~last.failed
    /\ Len(last.samples) > Capacity(webmOpusWorker) - last.cursor


\* the effect a Feed of n interleaved samples has when it does not fill the
\* staging buffer: no service invoked, queue unchanged, the samples stored
\* at [c, c + n), the rest of the buffer as before, cursor c + n
NonFillingEffect ==
    LET c == last.cursor
        in == Interleaved(last.channelBuffers)
        n == Len(in)
    IN  (c + n < Capacity(webmOpusWorker)) =>
          /\ trace = <<>>
          /\ thrown = "none"
          /\ webmOpusWorker.encodedBuffers = last.queue
          /\ webmOpusWorker.inputBufferIndex = c + n
          /\ \A k \in 1..Capacity(webmOpusWorker) :
                webmOpusWorker.mInputBuffer[k] =
                    IF k > c /\ k <= c + n THEN in[k - c] ELSE last.mInputBuffer[k]

\* C18: frame of a non-filling Feed.  A Feed whose input does not bring the
\* cursor to capacity invokes no service, leaves the queue unchanged and
\* changes only positions [c, c + n) of the staging buffer and the cursor;
\* and every Feed keeps the segments already queued, in their order.
C18_NonFillingFeed ==
    Fed =>
      /\ NonFillingEffect
      /\ Len(webmOpusWorker.encodedBuffers) >= Len(last.queue)
      /\ SubSeq(webmOpusWorker.encodedBuffers, 1, Len(last.queue)) = last.queue

\* Not a claim: what the code does ensure.  With one channel the non-filling
\* Feed has exactly that effect, and with any number of channels a Feed only
\* appends to the queue.
MonoNonFillingFeed ==
    Fed =>
      /\ Len(last.channelBuffers) = 1 => NonFillingEffect
      /\ Len(webmOpusWorker.encodedBuffers) >= Len(last.queue)
      /\ SubSeq(webmOpusWorker.encodedBuffers, 1, Len(last.queue)) = last.queue


\* C19: Feed terminates.  The loop of a Feed runs at most one iteration per
\* input sample plus one (the one that flushes a buffer left full by a
\* failed Feed), every iteration consumes a sample, resets a full buffer or
\* raises, and the loop ends with all input consumed or with an error.
C19_FeedTerminates ==
    Fed =>
      /\ last.loop.iters <= Len(last.samples) + 1
      /\ last.loop.stalled = 0
      /\ thrown = "none" => last.loop.sampleIndex = Len(last.samples)
      /\ thrown # "none" => last.loop.sampleIndex < Len(last.samples)

\* Reached: a Feed that started with the cursor at capacity consumed its input
C19_Witness ==
    /\ Fed
    /\ last.failed
    /\ last.cursor = Capacity(webmOpusWorker)
    /\ Len(last.samples) > 1
    /\ thrown = "none"
    /\ last.loop.iters >= 2
    /\ last.loop.sampleIndex = Len(last.samples)


\* C20: out-of-order commands before init.  A pushInputData or done that
\* finds no instance fails with a TypeError and changes nothing: no step of
\* a pipeline runs, nothing is posted, no resource is acquired or released,
\* the worker keeps listening and still has no instance.  And an init that
\* succeeds, whatever came before it, leaves a fresh pipeline: cursor 0,
\* empty queue, all its resources held.
C20_OutOfOrderBeforeInit ==
    /\ (last.command \in {"pushInputData", "done"} /\ ~last.defined) =>
          /\ thrown = "TypeError"
          /\ trace = <<>>
          /\ Len(posted) = last.nPosted
          /\ live = last.live
          /\ nextSeg = last.nextSeg
          /\ phase = "listening"
          /\ ~Defined
    /\ (last.command = "init" /\ thrown = "none") =>
          /\ Defined
          /\ phase = "listening"
          /\ webmOpusWorker.inst = nInst
          /\ webmOpusWorker.inputBufferIndex = 0
          /\ webmOpusWorker.encodedBuffers = <<>>
          /\ Handles(nInst, close) \subseteq live
          /\ Len(posted) = last.nPosted

\* Reached: done arrived after readyToInit with no instance, and failed
C20_Witness ==
    /\ last.command = "done"
    /\ ~last.defined
    /\ thrown = "TypeError"
    /\ phase = "listening"
    /\ posted = <<[command |-> "readyToInit", buffers |-> <<>>]>>
    /\ nCmd < MaxCommands

====
